---- MODULE Spec2Model ----
(***************************************************************************)
(* Four independent pattern examples of the repository, each a script of   *)
(* its own: observer.py, builder.py, adapter.py and strategy.py.  Each is  *)
(* modelled as a state machine over its own variables (SpecObserver,       *)
(* SpecBuilder, SpecAdapter, SpecStrategy); a client calls the public      *)
(* methods in any order with arguments drawn from small sets.              *)
(* Python str values are TLA+ strings; Python lists are sequences.         *)
(***************************************************************************)
EXTENDS Integers, Sequences, FiniteSets, TLC

VARIABLES
    \* observer.py
    observers,   \* LLMOutputNotifier.observers
    updates,     \* every Observer.update invocation so far, in call order
    stdout,      \* the lines printed by the update methods
    obsCalls,    \* the calls the client has made on the notifier, in order
    obsRet,      \* outcome of the latest call on the notifier
    \* builder.py
    builders,    \* the QueryBuilder objects, by reference
    bldRet,      \* outcome of the latest QueryBuilder call
    \* adapter.py
    models,      \* the model objects' attributes, by reference
    adapters,    \* the ModelAdapter objects constructed so far
    adRet,       \* outcome of the latest ModelAdapter call
    \* strategy.py
    strategy,    \* ChatBot.strategy
    retrieved,   \* every RAGStrategy.retrieve invocation so far, in call order
    botCalls,    \* the calls the client has made on the bot, in order
    botRet       \* outcome of the latest ChatBot call

obsVars == <<observers, updates, stdout, obsCalls, obsRet>>
bldVars == <<builders, bldRet>>
adVars == <<models, adapters, adRet>>
botVars == <<strategy, retrieved, botCalls, botRet>>
vars == <<obsVars, bldVars, adVars, botVars>>

\* Python's None
None == [kind |-> "None"]

(***************************************************************************)
(* observer.py                                                             *)
(***************************************************************************)

\* Bound on the number of calls a client makes on the notifier.
MaxObsCalls == 5

\* The listener objects: the two of the script and a second Logger.
\* Objects compare by identity (no __eq__ is defined).
ObserverClass ==
    [logger |-> "Logger", ui_updater |-> "UIUpdater", logger2 |-> "Logger"]

Listeners == DOMAIN ObserverClass

Payloads == {"The capital of France is Paris.", "Python"}

\* Logger.update / UIUpdater.update: the line each prints
ObserverUpdate(o, llm_output) ==
    IF ObserverClass[o] = "Logger"
    THEN "Logger: Saving LLM output to logs: " \o llm_output
    ELSE "UI: Displaying LLM output to the user: " \o llm_output

\* list.append
ListAppend(list, x) == list \o <<x>>

\* variant of list.remove that deletes the latest occurrence
ListRemoveLast(list, x) ==
    IF \E i \in 1..Len(list) : list[i] = x
    THEN LET k == CHOOSE i \in 1..Len(list) :
                     list[i] = x /\ \A j \in (i+1)..Len(list) : list[j] # x
         IN [err |-> "none",
             list |-> SubSeq(list, 1, k-1) \o SubSeq(list, k+1, Len(list))]
    ELSE [err |-> "ValueError", list |-> list]

\* variant of list.remove that deletes every occurrence and never raises
ListRemoveSilent(list, x) ==
    [err |-> "none", list |-> SelectSeq(list, LAMBDA y : y # x)]

\* list.remove: scans from the front, deletes the first element equal to x,
\* raises ValueError when there is none
RECURSIVE ListRemoveFrom(_, _, _)
ListRemoveFrom(list, x, i) ==
    IF i > Len(list) THEN [err |-> "ValueError", list |-> list]
    ELSE IF list[i] = x
         THEN [err |-> "none",
               list |-> SubSeq(list, 1, i-1) \o SubSeq(list, i+1, Len(list))]
         ELSE ListRemoveFrom(list, x, i+1)

ListRemove(list, x) == ListRemoveFrom(list, x, 1)

\* variant of the notify loop that runs back to front
NotifyLoopReversed(list, llm_output) ==
    [i \in 1..Len(list) |->
        [observer |-> list[Len(list) + 1 - i], llm_output |-> llm_output]]

\* the for loop of notify: one update call per entry, front to back
RECURSIVE NotifyLoopFrom(_, _, _)
NotifyLoopFrom(list, llm_output, i) ==
    IF i > Len(list) THEN <<>>
    ELSE <<[observer |-> list[i], llm_output |-> llm_output]>>
         \o NotifyLoopFrom(list, llm_output, i+1)

NotifyLoop(list, llm_output) == NotifyLoopFrom(list, llm_output, 1)

\* the lines the update calls print, in call order
Printed(calls) ==
    [i \in 1..Len(calls) |-> ObserverUpdate(calls[i].observer, calls[i].llm_output)]

InitObserver ==
    /\ observers = <<>>
    /\ updates = <<>>
    /\ stdout = <<>>
    /\ obsCalls = <<>>
    /\ obsRet = [op |-> "__init__", arg |-> "", err |-> "none"]

add_observer(observer) ==
    /\ Len(obsCalls) < MaxObsCalls
    /\ observers' = ListAppend(observers, observer)
    /\ obsCalls' = Append(obsCalls, <<"add_observer", observer>>)
    /\ obsRet' = [op |-> "add_observer", arg |-> observer, err |-> "none"]
    /\ UNCHANGED <<updates, stdout, bldVars, adVars, botVars>>

remove_observer(observer) ==
    /\ Len(obsCalls) < MaxObsCalls
    /\ LET r == ListRemove(observers, observer)
       IN /\ observers' = r.list
          /\ obsRet' = [op |-> "remove_observer", arg |-> observer, err |-> r.err]
    /\ obsCalls' = Append(obsCalls, <<"remove_observer", observer>>)
    /\ UNCHANGED <<updates, stdout, bldVars, adVars, botVars>>

notify(llm_output) ==
    /\ Len(obsCalls) < MaxObsCalls
    /\ LET calls == NotifyLoop(observers, llm_output)
       IN /\ updates' = updates \o calls
          /\ stdout' = stdout \o Printed(calls)
    /\ obsCalls' = Append(obsCalls, <<"notify", llm_output>>)
    /\ obsRet' = [op |-> "notify", arg |-> llm_output, err |-> "none"]
    /\ UNCHANGED <<observers, bldVars, adVars, botVars>>

NextObserver ==
    \/ \E o \in Listeners : add_observer(o)
    \/ \E o \in Listeners : remove_observer(o)
    \/ \E x \in Payloads : notify(x)

(***************************************************************************)
(* builder.py                                                              *)
(***************************************************************************)

\* Bound on the number of examples added to one builder.
MaxExamples == 2

\* QueryBuilder.__init__ defaults; temperatures are counted in tenths
\* (1.0 is 10, 0.7 is 7)
DefaultTemperature == 10
DefaultMaxTokens == 100

\* The two QueryBuilder() objects of the script
BuilderRefs == {"few_shot", "no_shot"}

Prompts == {"Q3", "What is C++?"}
Temperatures == {7}
TokenCounts == {50}
ExampleInputs == {"Q1", "Q2"}
ExampleOutputs == [Q1 |-> "A1", Q2 |-> "A2"]

BuilderFields == {"prompt", "temperature", "max_tokens", "examples"}

\* QueryBuilder.__init__
NewQueryBuilder ==
    [prompt |-> "", temperature |-> DefaultTemperature,
     max_tokens |-> DefaultMaxTokens, examples |-> <<>>]

\* Query.__init__
Query(prompt, temperature, max_tokens) ==
    [kind |-> "Query", prompt |-> prompt, temperature |-> temperature,
     max_tokens |-> max_tokens]

\* a reference returned by a call (return self)
Ref(r) == [kind |-> "ref", ref |-> r]

\* str.join
RECURSIVE StrJoin(_, _)
StrJoin(sep, parts) ==
    IF Len(parts) = 0 THEN ""
    ELSE IF Len(parts) = 1 THEN parts[1]
    ELSE parts[1] \o sep \o StrJoin(sep, Tail(parts))

\* the f-string of one example
FormatExample(ex) == "Input: " \o ex.input \o "\nOutput: " \o ex.output

\* variant of build() that ends the prompt with "Output: "
BuildPromptTrailingSpace(b) ==
    IF Len(b.examples) > 0
    THEN StrJoin("\n\n", [i \in 1..Len(b.examples) |-> FormatExample(b.examples[i])])
         \o "\n\nInput: " \o b.prompt \o "\nOutput: "
    ELSE b.prompt

\* build(): full_prompt
BuildPrompt(b) ==
    IF Len(b.examples) > 0
    THEN LET example_str ==
                 StrJoin("\n\n",
                         [i \in 1..Len(b.examples) |-> FormatExample(b.examples[i])])
         IN example_str \o "\n\nInput: " \o b.prompt \o "\nOutput:"
    ELSE b.prompt

SetPrompt(b, prompt) == [b EXCEPT !.prompt = prompt]

\* variant of set_temperature that also writes max_tokens
SetTemperatureClobber(b, temperature) ==
    [b EXCEPT !.temperature = temperature, !.max_tokens = temperature]

SetTemperature(b, temperature) == [b EXCEPT !.temperature = temperature]

SetMaxTokens(b, max_tokens) == [b EXCEPT !.max_tokens = max_tokens]

AddExample(b, example_input, example_output) ==
    [b EXCEPT !.examples =
        ListAppend(@, [input |-> example_input, output |-> example_output])]

InitBuilder ==
    /\ builders = [r \in BuilderRefs |-> NewQueryBuilder]
    /\ bldRet = [op |-> "__init__", self |-> "few_shot", args |-> <<>>, value |-> None]

set_prompt(self, prompt) ==
    /\ builders' = [builders EXCEPT ![self] = SetPrompt(@, prompt)]
    /\ bldRet' = [op |-> "set_prompt", self |-> self, args |-> <<prompt>>,
                  value |-> Ref(self)]
    /\ UNCHANGED <<obsVars, adVars, botVars>>

set_temperature(self, temperature) ==
    /\ builders' = [builders EXCEPT ![self] = SetTemperature(@, temperature)]
    /\ bldRet' = [op |-> "set_temperature", self |-> self, args |-> <<temperature>>,
                  value |-> Ref(self)]
    /\ UNCHANGED <<obsVars, adVars, botVars>>

set_max_tokens(self, max_tokens) ==
    /\ builders' = [builders EXCEPT ![self] = SetMaxTokens(@, max_tokens)]
    /\ bldRet' = [op |-> "set_max_tokens", self |-> self, args |-> <<max_tokens>>,
                  value |-> Ref(self)]
    /\ UNCHANGED <<obsVars, adVars, botVars>>

add_example(self, example_input, example_output) ==
    /\ Len(builders[self].examples) < MaxExamples
    /\ builders' = [builders EXCEPT ![self] =
                        AddExample(@, example_input, example_output)]
    /\ bldRet' = [op |-> "add_example", self |-> self,
                  args |-> <<example_input, example_output>>, value |-> Ref(self)]
    /\ UNCHANGED <<obsVars, adVars, botVars>>

build(self) ==
    /\ bldRet' = [op |-> "build", self |-> self, args |-> <<>>,
                  value |-> Query(BuildPrompt(builders[self]),
                                  builders[self].temperature,
                                  builders[self].max_tokens)]
    /\ UNCHANGED <<builders, obsVars, adVars, botVars>>

NextBuilder ==
    \/ \E self \in BuilderRefs, p \in Prompts : set_prompt(self, p)
    \/ \E self \in BuilderRefs, t \in Temperatures : set_temperature(self, t)
    \/ \E self \in BuilderRefs, n \in TokenCounts : set_max_tokens(self, n)
    \/ \E self \in BuilderRefs, i \in ExampleInputs :
          add_example(self, i, ExampleOutputs[i])
    \/ \E self \in BuilderRefs : build(self)

(***************************************************************************)
(* adapter.py                                                              *)
(***************************************************************************)

\* Bound on the number of ModelAdapter objects constructed.
MaxAdapters == 2

\* The two model objects of the script, with their instance attributes
InitialModels ==
    [openai |-> [cls |-> "OpenAIModel",
                 dict |-> [openai_model_name |-> "gpt-4o"]],
     huggingface |-> [cls |-> "HuggingFaceModel",
                      dict |-> [model_name |-> "Mistral7b",
                                quantization_method |-> "bitsandbytes"]]]

ModelRefs == DOMAIN InitialModels

\* the methods each class defines
ClassMethods ==
    [OpenAIModel |-> {"__init__", "query"},
     HuggingFaceModel |-> {"__init__", "generate"}]

\* names a client may configure: the methods, the instance attributes and
\* one name no model has
AttrNames ==
    {"query", "generate", "__init__", "openai_model_name", "model_name", "predict"}

Texts == {"What is Python?", "X"}

\* OpenAIModel.query
OpenAIModel_query(prompt) == "OpenAI response to: " \o prompt \o ")"

\* HuggingFaceModel.generate
HuggingFaceModel_generate(prompt) == "HuggingFace response to: " \o prompt \o ")"

Returned(v, obj) == [err |-> "none", value |-> v, obj |-> obj]
Raised(e, obj) == [err |-> e, value |-> None, obj |-> obj]

\* obj.<name>(text) for a method <name> of obj's class, called with the one
\* positional argument text
CallMethod(obj, name, text) ==
    CASE obj.cls = "OpenAIModel" /\ name = "query" ->
            Returned([kind |-> "str", str |-> OpenAIModel_query(text)], obj)
      [] obj.cls = "HuggingFaceModel" /\ name = "generate" ->
            Returned([kind |-> "str", str |-> HuggingFaceModel_generate(text)], obj)
      [] obj.cls = "OpenAIModel" /\ name = "__init__" ->
            Returned(None, [obj EXCEPT !.dict.openai_model_name = text])
      [] obj.cls = "HuggingFaceModel" /\ name = "__init__" ->
            \* quantization_method is a required second argument
            Raised("TypeError", obj)

\* getattr(obj, name): instance attributes first, then the class's methods
Getattr(obj, name) ==
    IF name \in DOMAIN obj.dict
    THEN [kind |-> "str", str |-> obj.dict[name]]
    ELSE IF name \in ClassMethods[obj.cls]
    THEN [kind |-> "method", name |-> name]
    ELSE [kind |-> "raise", err |-> "AttributeError"]

\* variant of query that returns None when the name is no method
ModelAdapterQueryDefault(obj, query_method, text) ==
    LET attr == Getattr(obj, query_method)
    IN IF attr.kind = "method" THEN CallMethod(obj, attr.name, text)
       ELSE Returned(None, obj)

\* variant of query that does not pass its argument on
ModelAdapterQueryFixed(obj, query_method, text) ==
    LET attr == Getattr(obj, query_method)
    IN IF attr.kind = "raise" THEN Raised(attr.err, obj)
       ELSE IF attr.kind = "str" THEN Raised("TypeError", obj)
       ELSE CallMethod(obj, attr.name, "What is Python?")

\* ModelAdapter.query: getattr(self.model, self.query_method)(text)
ModelAdapterQuery(obj, query_method, text) ==
    LET attr == Getattr(obj, query_method)
    IN IF attr.kind = "raise" THEN Raised(attr.err, obj)
       ELSE IF attr.kind = "str"
       THEN \* 'str' object is not callable
            Raised("TypeError", obj)
       ELSE CallMethod(obj, attr.name, text)

\* variant of the constructor that replaces a name the model lacks
NewModelAdapterChecked(model, query_method) ==
    [model |-> model,
     query_method |-> IF query_method \in ClassMethods[InitialModels[model].cls]
                      THEN query_method
                      ELSE CHOOSE n \in ClassMethods[InitialModels[model].cls] :
                               n # "__init__"]

\* ModelAdapter.__init__
NewModelAdapter(model, query_method) ==
    [model |-> model, query_method |-> query_method]

InitAdapter ==
    /\ models = InitialModels
    /\ adapters = <<>>
    /\ adRet = [op |-> "none", adapter |-> 0, args |-> <<>>, err |-> "none",
                value |-> None]

ModelAdapter_init(model, query_method) ==
    /\ Len(adapters) < MaxAdapters
    /\ adapters' = Append(adapters, NewModelAdapter(model, query_method))
    /\ adRet' = [op |-> "__init__", adapter |-> Len(adapters) + 1,
                 args |-> <<model, query_method>>, err |-> "none", value |-> None]
    /\ UNCHANGED <<models, obsVars, bldVars, botVars>>

ModelAdapter_query(a, text) ==
    /\ a \in 1..Len(adapters)
    /\ LET self == adapters[a]
           r == ModelAdapterQuery(models[self.model], self.query_method, text)
       IN /\ models' = [models EXCEPT ![self.model] = r.obj]
          /\ adRet' = [op |-> "query", adapter |-> a, args |-> <<text>>,
                       err |-> r.err, value |-> r.value]
    /\ UNCHANGED <<adapters, obsVars, bldVars, botVars>>

NextAdapter ==
    \/ \E m \in ModelRefs, n \in AttrNames : ModelAdapter_init(m, n)
    \/ \E a \in 1..MaxAdapters, x \in Texts : ModelAdapter_query(a, x)

(***************************************************************************)
(* strategy.py                                                             *)
(***************************************************************************)

\* Bound on the number of calls a client makes on the bot.
MaxBotCalls == 4

\* The strategy objects: one of each class
StrategyClass ==
    [naive |-> "NaiveRAG", advanced |-> "AdvancedRAG", abstract |-> "RAGStrategy"]

StrategyRefs == DOMAIN StrategyClass

Queries ==
    {"Explain Python design patterns.", "Design Patterns", "Strategy Pattern", ""}

\* a Python list value
PyList(items) == [kind |-> "list", items |-> items]

\* sub in s
Contains(sub, s) ==
    \E i \in 1..(Len(s) - Len(sub) + 1) : SubSeq(s, i, i + Len(sub) - 1) = sub

\* repr of a str without quotes, backslashes or control characters
PyReprStr(s) == "'" \o s \o "'"

\* str(value) for None and for a list of str
PyStr(v) ==
    IF v.kind = "None" THEN "None"
    ELSE "[" \o StrJoin(", ", [i \in 1..Len(v.items) |-> PyReprStr(v.items[i])]) \o "]"

\* NaiveRAG.retrieve
NaiveRetrieve(query) ==
    PyList(<<"Document 1: Basics of Python.", "Document 2: OOP in Python.">>)

all_docs ==
    <<"Document 1: Basics of Python.",
      "Document 2: Advanced Python Design Patterns.",
      "Document 3: Strategy Pattern in Depth.">>

\* variant of AdvancedRAG.retrieve that filters by the query
AdvancedRetrieveByQuery(query) ==
    PyList(SelectSeq(all_docs, LAMBDA doc : Contains(query, doc)))

\* AdvancedRAG.retrieve
AdvancedRetrieve(query) ==
    PyList(SelectSeq(all_docs, LAMBDA doc : Contains("Design Patterns", doc)))

\* strategy.retrieve(query), dispatched on the object's class
Retrieve(s, query) ==
    CASE StrategyClass[s] = "NaiveRAG" -> NaiveRetrieve(query)
      [] StrategyClass[s] = "AdvancedRAG" -> AdvancedRetrieve(query)
      [] StrategyClass[s] = "RAGStrategy" -> None

\* variant of set_strategy that keeps the current strategy
SetStrategyKeep(current, new) == current

\* ChatBot.set_strategy: the new value of self.strategy
SetStrategy(current, new) == new

\* the f-string of get_response
FormatResponse(retrieved_docs) ==
    "Generated response based on: " \o PyStr(retrieved_docs)

\* bot = ChatBot(NaiveRAG())
InitStrategy ==
    /\ strategy = "naive"
    /\ retrieved = <<>>
    /\ botCalls = <<<<"__init__", strategy>>>>
    /\ botRet = [op |-> "__init__", value |-> None]

set_strategy(s) ==
    /\ Len(botCalls) < MaxBotCalls
    /\ strategy' = SetStrategy(strategy, s)
    /\ botCalls' = Append(botCalls, <<"set_strategy", s>>)
    /\ botRet' = [op |-> "set_strategy", value |-> None]
    /\ UNCHANGED <<retrieved, obsVars, bldVars, adVars>>

get_response(query) ==
    /\ Len(botCalls) < MaxBotCalls
    /\ LET retrieved_docs == Retrieve(strategy, query)
       IN /\ retrieved' = Append(retrieved, [strategy |-> strategy, query |-> query,
                                             result |-> retrieved_docs])
          /\ botRet' = [op |-> "get_response",
                        value |-> [kind |-> "str", str |-> FormatResponse(retrieved_docs)]]
    /\ botCalls' = Append(botCalls, <<"get_response", query>>)
    /\ UNCHANGED <<strategy, obsVars, bldVars, adVars>>

NextStrategy ==
    \/ \E s \in StrategyRefs : set_strategy(s)
    \/ \E q \in Queries : get_response(q)

(***************************************************************************)
(* The four programs                                                       *)
(***************************************************************************)

Init == InitObserver /\ InitBuilder /\ InitAdapter /\ InitStrategy

SpecObserver == Init /\ [][NextObserver]_vars
SpecBuilder == Init /\ [][NextBuilder]_vars
SpecAdapter == Init /\ [][NextAdapter]_vars
SpecStrategy == Init /\ [][NextStrategy]_vars

(***************************************************************************)
(* Properties of observer.py                                               *)
(***************************************************************************)

Count(list, x) == Cardinality({i \in 1..Len(list) : list[i] = x})

\* the update calls made by the step
NewUpdates == SubSeq(updates', Len(updates) + 1, Len(updates'))

UpdateCall(o, x) == [observer |-> o, llm_output |-> x]

NotifyStep == obsRet'.op = "notify" /\ obsCalls' # obsCalls
AddStep == obsRet'.op = "add_observer" /\ obsCalls' # obsCalls
RemoveStep == obsRet'.op = "remove_observer" /\ obsCalls' # obsCalls

\* the script: add(logger), add(ui_updater), notify(X), remove(logger), notify(Y)
DemoCalls ==
    << <<"add_observer", "logger">>, <<"add_observer", "ui_updater">>,
       <<"notify", "The capital of France is Paris.">>,
       <<"remove_observer", "logger">>, <<"notify", "Python">> >>

C1_NotifyDelivers ==
    NotifyStep =>
        /\ observers' = observers
        /\ SubSeq(updates', 1, Len(updates)) = updates
        /\ Len(NewUpdates) = Len(observers)
        /\ \A i \in 1..Len(observers) :
              NewUpdates[i] = UpdateCall(observers[i], obsRet'.arg)

C1_Demo ==
    /\ obsCalls = SubSeq(DemoCalls, 1, 3) =>
          updates = << UpdateCall("logger", "The capital of France is Paris."),
                       UpdateCall("ui_updater", "The capital of France is Paris.") >>
    /\ obsCalls = DemoCalls =>
          updates = << UpdateCall("logger", "The capital of France is Paris."),
                       UpdateCall("ui_updater", "The capital of France is Paris."),
                       UpdateCall("ui_updater", "Python") >>

\* C1: notify(X) calls update(X) exactly once per entry of the registry as it
\* stands, in the order the entries were added, and on nothing else; after
\* add(L1), add(L2), notify(X) both get X, L1 first, and after remove(L1),
\* notify(Y) reaches L2 only.
C1_NotifyInRegistrationOrder == [][C1_NotifyDelivers]_vars /\ []C1_Demo

C1_Witness == obsCalls = DemoCalls /\ Len(updates) = 3

C9_Add ==
    AddStep =>
        /\ Len(observers') = Len(observers) + 1
        /\ observers'[Len(observers')] = obsRet'.arg
        /\ SubSeq(observers', 1, Len(observers)) = observers
        /\ obsRet'.err = "none"

C9_Remove ==
    (RemoveStep /\ Count(observers, obsRet'.arg) > 0) =>
        LET k == CHOOSE i \in 1..Len(observers) :
                     /\ observers[i] = obsRet'.arg
                     /\ \A j \in 1..(i-1) : observers[j] # obsRet'.arg
        IN /\ Len(observers') = Len(observers) - 1
           /\ \A i \in 1..(k-1) : observers'[i] = observers[i]
           /\ \A i \in k..Len(observers') : observers'[i] = observers[i+1]
           /\ Count(observers', obsRet'.arg) = Count(observers, obsRet'.arg) - 1
           /\ obsRet'.err = "none"

C9_NotifyCounts ==
    NotifyStep =>
        \A o \in Listeners :
            Count(NewUpdates, UpdateCall(o, obsRet'.arg)) = Count(observers, o)

\* C9: add_observer appends at the end, duplicates included; remove_observer(L)
\* deletes only the earliest occurrence of L and keeps every other entry in
\* place, so a listener registered k times and removed once is updated k-1
\* times by each later notify.
C9_RemoveFirstOccurrenceOnly == [][C9_Add /\ C9_Remove /\ C9_NotifyCounts]_vars

C9_Witness ==
    /\ obsCalls = << <<"add_observer", "logger">>, <<"add_observer", "ui_updater">>,
                     <<"add_observer", "logger">>, <<"remove_observer", "logger">>,
                     <<"notify", "Python">> >>
    /\ observers = <<"ui_updater", "logger">>
    /\ updates = << UpdateCall("ui_updater", "Python"), UpdateCall("logger", "Python") >>

C10_RemoveAbsent ==
    (RemoveStep /\ Count(observers, obsRet'.arg) = 0) =>
        /\ obsRet'.err = "ValueError"
        /\ observers' = observers
        /\ updates' = updates

C10_NotifyAfterFailedRemove ==
    \A x \in Payloads :
        obsCalls = << <<"add_observer", "logger">>, <<"add_observer", "ui_updater">>,
                      <<"remove_observer", "logger2">>, <<"notify", x>> >> =>
            updates = << UpdateCall("logger", x), UpdateCall("ui_updater", x) >>

\* C10: remove_observer(L) with L not registered raises ValueError and leaves
\* the registry as it was, so the next notify reaches the same listeners in
\* the same order.
C10_RemoveAbsentRaises == [][C10_RemoveAbsent]_vars /\ []C10_NotifyAfterFailedRemove

C10_Witness ==
    /\ Len(obsCalls) = 4
    /\ obsCalls[3] = <<"remove_observer", "logger2">>
    /\ obsCalls[4][1] = "notify"
    /\ observers = <<"logger", "ui_updater">>
    /\ Len(updates) = 2

(***************************************************************************)
(* Properties of builder.py                                                *)
(***************************************************************************)

\* the examples, each followed by a blank line, then the prompt's own lines
RECURSIVE RenderFewShot(_, _)
RenderFewShot(examples, prompt) ==
    IF Len(examples) = 0 THEN "Input: " \o prompt \o "\nOutput:"
    ELSE "Input: " \o Head(examples).input \o "\nOutput: " \o Head(examples).output
         \o "\n\n" \o RenderFewShot(Tail(examples), prompt)

ExpectedPrompt(b) ==
    IF b.examples = <<>> THEN b.prompt ELSE RenderFewShot(b.examples, b.prompt)

Q1Q2 == << [input |-> "Q1", output |-> "A1"], [input |-> "Q2", output |-> "A2"] >>

\* C2: build() returns the prompt unchanged when no example was added, and
\* otherwise the examples in insertion order, each as "Input: <in>\nOutput:
\* <out>", joined by a blank line and followed by "\n\nInput: P\nOutput:".
\* build() leaves the builder as it was, so the builder of the state is the one
\* build() read.
C2_BuildPromptFormat ==
    bldRet.op = "build" =>
        LET b == builders[bldRet.self]
        IN /\ bldRet.value.kind = "Query"
           /\ bldRet.value.prompt = ExpectedPrompt(b)
           /\ b.examples = <<>> => bldRet.value.prompt = b.prompt
           /\ (b.examples = Q1Q2 /\ b.prompt = "Q3") =>
                 bldRet.value.prompt =
                     "Input: Q1\nOutput: A1\n\nInput: Q2\nOutput: A2\n\nInput: Q3\nOutput:"

C2_Witness ==
    /\ bldRet.op = "build"
    /\ builders[bldRet.self].examples = Q1Q2
    /\ builders[bldRet.self].prompt = "Q3"
    /\ \E r \in BuilderRefs : builders[r].examples = <<>> /\ builders[r].prompt # ""

\* the field each setter writes
SetterField ==
    [set_prompt |-> "prompt", set_temperature |-> "temperature",
     set_max_tokens |-> "max_tokens", add_example |-> "examples"]

C8_Setter ==
    bldRet'.op \in DOMAIN SetterField =>
        /\ bldRet'.value = Ref(bldRet'.self)
        /\ \A r \in BuilderRefs, f \in BuilderFields :
              (r # bldRet'.self \/ f # SetterField[bldRet'.op]) =>
                  builders'[r][f] = builders[r][f]
        /\ bldRet'.op = "set_prompt" =>
              builders'[bldRet'.self].prompt = bldRet'.args[1]
        /\ bldRet'.op = "set_temperature" =>
              builders'[bldRet'.self].temperature = bldRet'.args[1]
        /\ bldRet'.op = "set_max_tokens" =>
              builders'[bldRet'.self].max_tokens = bldRet'.args[1]
        /\ bldRet'.op = "add_example" =>
              builders'[bldRet'.self].examples =
                  builders[bldRet'.self].examples
                  \o <<[input |-> bldRet'.args[1], output |-> bldRet'.args[2]]>>

C8_Build ==
    bldRet'.op = "build" =>
        /\ builders' = builders
        /\ bldRet'.value.temperature = builders[bldRet'.self].temperature
        /\ bldRet'.value.max_tokens = builders[bldRet'.self].max_tokens
        /\ (bldRet.op = "build" /\ bldRet.self = bldRet'.self) =>
              bldRet'.value = bldRet.value
        /\ (bldRet.op = "add_example" /\ bldRet.self = bldRet'.self) =>
              Contains("Input: " \o bldRet.args[1] \o "\nOutput: " \o bldRet.args[2]
                           \o "\n\nInput: " \o builders[bldRet'.self].prompt,
                       bldRet'.value.prompt)
        /\ (bldRet.op = "set_prompt" /\ bldRet.self = bldRet'.self) =>
              Contains(bldRet.args[1], bldRet'.value.prompt)

\* C8: each setter writes only its own field of the builder it is called on
\* and returns that builder; build() leaves every builder as it was, two
\* build() calls in a row return equal Queries, and a build() after a setter
\* call shows what the setter wrote.
C8_SettersFrameAndBuildReadsState == [][C8_Setter /\ C8_Build]_vars

C8_Witness ==
    /\ bldRet.op = "build"
    /\ bldRet.value.temperature = 7
    /\ bldRet.value.max_tokens = 50
    /\ Len(builders[bldRet.self].examples) = 2
    /\ builders[bldRet.self].prompt = "What is C++?"

(***************************************************************************)
(* Properties of adapter.py                                                *)
(***************************************************************************)

\* the adapter the latest call was made on
AdSelf == adapters[adRet.adapter]

MethodExists(a) == a.query_method \in ClassMethods[models[a.model].cls]

\* C3: when the model has the configured method, query(X) gives exactly what
\* the method gives when called directly with X: the same value, or the same
\* error.
C3_AdapterForwards ==
    (adRet.op = "query" /\ MethodExists(AdSelf)) =>
        LET direct == CallMethod(models[AdSelf.model], AdSelf.query_method,
                                 adRet.args[1])
        IN /\ adRet.err = direct.err
           /\ adRet.value = direct.value
           /\ (AdSelf.model = "openai" /\ AdSelf.query_method = "query") =>
                 adRet.value.str = "OpenAI response to: " \o adRet.args[1] \o ")"
           /\ (AdSelf.model = "huggingface" /\ AdSelf.query_method = "generate") =>
                 adRet.value.str = "HuggingFace response to: " \o adRet.args[1] \o ")"

C3_Witness ==
    /\ adRet.op = "query"
    /\ AdSelf = [model |-> "huggingface", query_method |-> "generate"]
    /\ adRet.args = <<"X">>
    /\ adRet.err = "none"

\* C4: query on an adapter whose configured name is no method of its model
\* always raises and returns nothing: AttributeError when the model has no
\* attribute of that name, TypeError when the name is a data attribute.
C4_MissingMethodRaises ==
    (adRet.op = "query" /\ ~MethodExists(AdSelf)) =>
        /\ adRet.err \in {"AttributeError", "TypeError"}
        /\ adRet.value = None
        /\ AdSelf.query_method \notin DOMAIN models[AdSelf.model].dict =>
              adRet.err = "AttributeError"

C4_Witness ==
    /\ adRet.op = "query"
    /\ AdSelf.query_method = "predict"
    /\ adRet.err = "AttributeError"

\* C5 as stated: every constructed adapter names a method of its model.
C5_EveryAdapterNamesAMethod ==
    \A a \in 1..Len(adapters) : MethodExists(adapters[a])

\* C5 as amended: the constructor stores the name it is given without
\* checking it; the name is looked up only when query runs, so every adapter
\* whose query has returned names a method of its model.
C5_NameCheckedAtQuery ==
    /\ adRet.op = "__init__" =>
          AdSelf = [model |-> adRet.args[1], query_method |-> adRet.args[2]]
    /\ (adRet.op = "query" /\ adRet.err = "none") => MethodExists(AdSelf)

C5_Witness ==
    /\ adRet.op = "query"
    /\ adRet.err = "none"
    /\ \E a \in 1..Len(adapters) : ~MethodExists(adapters[a])

(***************************************************************************)
(* Properties of strategy.py                                               *)
(***************************************************************************)

\* the strategy given by the latest constructor or set_strategy call
RECURSIVE LastSet(_)
LastSet(calls) ==
    IF calls[Len(calls)][1] \in {"__init__", "set_strategy"}
    THEN calls[Len(calls)][2]
    ELSE LastSet(SubSeq(calls, 1, Len(calls) - 1))

\* positions of the get_response calls
GetIndexes == {i \in 1..Len(botCalls) : botCalls[i][1] = "get_response"}

\* C6: the bot's strategy is the one given by the latest constructor or
\* set_strategy call; each get_response(q) makes one retrieve(q) call, on the
\* strategy set most recently before it, and leaves the strategy alone; the
\* result is "Generated response based on: " followed by what retrieve gave.
C6_DelegatesToActiveStrategy ==
    /\ strategy = LastSet(botCalls)
    /\ Len(retrieved) = Cardinality(GetIndexes)
    /\ \A i \in GetIndexes :
          LET k == Cardinality({j \in GetIndexes : j <= i})
          IN /\ retrieved[k].strategy = LastSet(SubSeq(botCalls, 1, i))
             /\ retrieved[k].query = botCalls[i][2]
    /\ botRet.op = "get_response" =>
          LET last == retrieved[Len(retrieved)]
          IN /\ last.strategy = strategy
             /\ botRet.value.str = "Generated response based on: " \o PyStr(last.result)
             /\ StrategyClass[strategy] = "NaiveRAG" =>
                   botRet.value.str = "Generated response based on: "
                       \o "['Document 1: Basics of Python.', 'Document 2: OOP in Python.']"
             /\ StrategyClass[strategy] = "AdvancedRAG" =>
                   botRet.value.str = "Generated response based on: "
                       \o "['Document 2: Advanced Python Design Patterns.']"

C6_Witness ==
    /\ botCalls = << <<"__init__", "naive">>,
                     <<"get_response", "Explain Python design patterns.">>,
                     <<"set_strategy", "advanced">>,
                     <<"get_response", "Explain Python design patterns.">> >>
    /\ retrieved[1].strategy = "naive"
    /\ retrieved[2].strategy = "advanced"

\* C7: AdvancedRAG.retrieve returns the one-element list holding "Document 2:
\* Advanced Python Design Patterns." for every query, whatever the query says.
C7_AdvancedIgnoresQuery ==
    \A k \in 1..Len(retrieved) :
        StrategyClass[retrieved[k].strategy] = "AdvancedRAG" =>
            retrieved[k].result =
                PyList(<<"Document 2: Advanced Python Design Patterns.">>)

C7_Witness ==
    \E j, k \in 1..Len(retrieved) :
        /\ retrieved[j].strategy = "advanced" /\ retrieved[j].query = "Strategy Pattern"
        /\ retrieved[k].strategy = "advanced" /\ retrieved[k].query = ""

====
